---- MODULE Spec2Model ----
(***************************************************************************)
(* CSMA/CD simulator (nsim): the per-station state machine Server::tick,   *)
(* the arrival ticker Client::tick, the shared Medium over a               *)
(* CircularBuffer of per-tick bitmaps, and the tick loop of main.          *)
(***************************************************************************)
EXTENDS Integers, Sequences, FiniteSets, TLC

(***************************************************************************)
(* Bounds of the model.                                                    *)
(***************************************************************************)
\* ncount: the number of stations on the medium.
NumNodes == 2
\* the slots of a Medium exercised on its own.
MediumSlots == 2
\* the slots of a CircularBuffer exercised on its own.
BufferSlots == 3
\* ticks: the number of iterations of the driver's loop, of a short and of a
\* long run.
ShortTicks == 450
LongTicks == 1260
\* the ticks between two arrivals, and the ticks, of a run of two stations
\* that collide: the second packets arrive after the run.
PairDelay == 1400
PairTicks == 2650
\* the raw values the random source is allowed to return.
MaxRnd == 1

(***************************************************************************)
(* Program constants.                                                      *)
(***************************************************************************)
\* interframe spacing: the literal 96 of the Sensing arm.
IFS == 96
\* jam length: the counter a station enters Jamming with.
JAM_TICKS == 48
\* backoff slot: the factor of wait_time.
SLOT == 512
\* retry ceiling: retries > 10 drops the packet.
MAX_RETRIES == 10
\* bsize of the medium built by main ("25.6 rounding up to 26").
DELAY == 26
\* resolution and pspeed handed to Server::new.
RESOLUTION == 1
PSPEED == 1

(***************************************************************************)
(* Inputs of a run: drawn in Init.                                         *)
(***************************************************************************)
\* the ids of ncount stations.
Stations(ncount) == 0..(ncount - 1)

\* A run: the generator of every station (the ticks between two of its
\* arrivals; one generator per station, so ncount of them), the packet length
\* in bits (psize), the persistence flag and the number of ticks.
Run(generator, packet_length, persistence, t) ==
    [ncount |-> Cardinality(DOMAIN generator),
     generator |-> generator, packet_length |-> packet_length,
     persistence |-> persistence, ticks |-> t]

\* every station gets its packets in the same ticks.
Together == [n \in Stations(NumNodes) |-> 50]
\* station 0 gets a packet every 50 ticks, station 1 every 100 and any
\* further station every 1000.
Apart ==
    [n \in Stations(NumNodes) |->
        IF n = 0 THEN 50 ELSE IF n = 1 THEN 100 ELSE 1000]
\* a single station that gets a packet every d ticks (every tick for d = 0).
Alone(d) == [n \in Stations(1) |-> d]

\* a single station, an arrival every second tick, packets of one bit, 5 ticks.
Scenario1 == Run(Alone(2), 1, FALSE, 5)

Runs ==
    {Run(Together, 2, FALSE, ShortTicks),
     Run(Together, 40, FALSE, ShortTicks),
     Run(Together, 40, TRUE, ShortTicks),
     Run(Apart, 40, FALSE, LongTicks),
     Run(Apart, 40, TRUE, LongTicks),
     Scenario1}
    \cup {Run(Alone(d), length, FALSE, ShortTicks) :
              d \in {0, 1, 2, 150}, length \in {1, 3}}

\* Option<Packet>: None is the empty sequence, Some(p) is <<p>>.
None == <<>>
Some(p) == <<p>>

Packet(time_generated, length) ==
    [time_generated |-> time_generated, length |-> length]

(***************************************************************************)
(* CircularBuffer (cbuffer.rs).                                            *)
(***************************************************************************)
CBufferNew(size, default) ==
    [vec |-> [k \in 0..(size - 1) |-> default], idx |-> 0]

\* CBufferRead of the slot written last, the one before the head.
CBufferReadNewest(c) ==
    c.vec[(c.idx + Cardinality(DOMAIN c.vec) - 1) % Cardinality(DOMAIN c.vec)]

CBufferRead(c) == c.vec[c.idx]

CBufferWrite(c, t) == [c EXCEPT !.vec[c.idx] = t]

CBufferLen(c) == Cardinality(DOMAIN c.vec)

\* CBufferTick with the modulus one short: the last slot is never the head.
CBufferTickShort(c) == [c EXCEPT !.idx = (c.idx + 1) % (CBufferLen(c) - 1)]

\* CBufferTick that stops at the last slot instead of wrapping.
CBufferTickStops(c) ==
    [c EXCEPT !.idx = IF c.idx + 1 = CBufferLen(c) THEN c.idx ELSE c.idx + 1]

CBufferTick(c) == [c EXCEPT !.idx = (c.idx + 1) % CBufferLen(c)]

(***************************************************************************)
(* Medium (simulators.rs).                                                 *)
(***************************************************************************)
BitVecFromElem(n, b) == [k \in 0..(n - 1) |-> b]

\* MediumNew whose slots are one bit wider than num_nodes.
MediumNewWide(num_nodes, bsize) ==
    [tracks |-> CBufferNew(bsize, BitVecFromElem(num_nodes + 1, FALSE)),
     num_nodes |-> num_nodes]

MediumNew(num_nodes, bsize) ==
    [tracks |-> CBufferNew(bsize, BitVecFromElem(num_nodes, FALSE)),
     num_nodes |-> num_nodes]

MediumTick(m) == [m EXCEPT !.tracks = CBufferTick(m.tracks)]

\* is_busy without the mask of the caller's own bit.
is_busyUnmasked(m, id) ==
    LET head == CBufferRead(m.tracks)
    IN  \E k \in DOMAIN head : head[k]

\* mask = all ones but bit id; mask.intersect(head); mask.any()
is_busy(m, id) ==
    LET mask == [BitVecFromElem(m.num_nodes, TRUE) EXCEPT ![id] = FALSE]
        head == CBufferRead(m.tracks)
        both == [k \in DOMAIN mask |-> mask[k] /\ head[k]]
    IN  \E k \in DOMAIN both : both[k]

MediumWrite(m, state) == [m EXCEPT !.tracks = CBufferWrite(m.tracks, state)]

(***************************************************************************)
(* Generator and Client.                                                   *)
(***************************************************************************)
\* A deterministic generator: the same number of ticks at every call.
next_event(generator, resolution) == generator

ClientNew(generator, resolution, packet_length) ==
    [resolution |-> resolution,
     ticker |-> next_event(generator, resolution),
     packet_length |-> packet_length,
     generator |-> generator]

\* Client::tick that leaves the ticker at 0 when a decrement reaches it.
ClientTickStale(client, current_time) ==
    LET refill == [client EXCEPT
                     !.ticker = next_event(client.generator, client.resolution)]
        pkt == Packet(current_time, client.packet_length)
    IN  IF client.ticker = 0
        THEN [client |-> refill, packet |-> Some(pkt)]
        ELSE IF client.ticker - 1 = 0
             THEN [client |-> [client EXCEPT !.ticker = 0], packet |-> Some(pkt)]
             ELSE [client |-> [client EXCEPT !.ticker = client.ticker - 1],
                   packet |-> None]

ClientTick(client, current_time) ==
    LET refill == [client EXCEPT
                     !.ticker = next_event(client.generator, client.resolution)]
        pkt == Packet(current_time, client.packet_length)
    IN  IF client.ticker = 0
        THEN [client |-> refill, packet |-> Some(pkt)]
        ELSE IF client.ticker - 1 = 0
             THEN [client |-> refill, packet |-> Some(pkt)]
             ELSE [client |-> [client EXCEPT !.ticker = client.ticker - 1],
                   packet |-> None]

(***************************************************************************)
(* ServerState and Server.                                                 *)
(***************************************************************************)
Idle == [tag |-> "Idle"]

Sensing(counter, busy, current_packet) ==
    [tag |-> "Sensing", counter |-> counter, busy |-> busy,
     current_packet |-> current_packet]

Transmitting(bits_processed, current_packet) ==
    [tag |-> "Transmitting", bits_processed |-> bits_processed,
     current_packet |-> current_packet]

Jamming(counter, current_packet) ==
    [tag |-> "Jamming", counter |-> counter, current_packet |-> current_packet]

Waiting(counter, wait_time, current_packet) ==
    [tag |-> "Waiting", counter |-> counter, wait_time |-> wait_time,
     current_packet |-> current_packet]

ServerStatisticsNew ==
    [packets_processed |-> 0, packets_generated |-> 0, packets_dropped |-> 0]

ServerNew(id, generator, packet_length, resolution, pspeed, persistence) ==
    [id |-> id,
     client |-> ClientNew(generator, resolution, packet_length),
     queue |-> <<>>,
     resolution |-> resolution,
     statistics |-> ServerStatisticsNew,
     state |-> Idle,
     pspeed |-> pspeed,
     retries |-> 0,
     persistence |-> persistence]

enqueue(self, packet) == [self EXCEPT !.queue = Append(@, packet)]

(***************************************************************************)
(* The random source: gen_range(low, high) of a raw value rnd lies in the  *)
(* half-open range [low, high).                                            *)
(***************************************************************************)
gen_range(rnd, low, high) == low + (rnd % (high - low))

\* wait_time = gen_range(0, 2^retries - 1) * 512
wait_time_of(retries, rnd) == gen_range(rnd, 0, (2 ^ retries) - 1) * SLOT

(***************************************************************************)
(* The arms of the loop of Server::tick.  An arm returns the server after  *)
(* it, whether it breaks out of the loop (brk), the value it returns from  *)
(* tick (ret), whether it set the server's bit of local_state (set), and   *)
(* the branch it took (out), with the packet the branch is about (pkt).    *)
(***************************************************************************)
Arm(self, brk, ret, set, out, pkt) ==
    [self |-> self, brk |-> brk, ret |-> ret, set |-> set,
     arm |-> out, pkt |-> pkt]

\* IdleArm that takes the newest packet of the queue (pop_back).
IdleArmNewest(self) ==
    IF self.queue # <<>>
    THEN Arm([self EXCEPT !.queue = SubSeq(@, 1, Len(@) - 1),
                          !.state = Sensing(0, FALSE, self.queue[Len(self.queue)])],
             FALSE, None, FALSE, "Idle:pop", Some(self.queue[Len(self.queue)]))
    ELSE Arm([self EXCEPT !.state = Idle], TRUE, None, FALSE, "Idle:empty", None)

\* IdleArm that starts the sensing of the packet it takes at counter 1.
IdleArmHeadStart(self) ==
    IF self.queue # <<>>
    THEN Arm([self EXCEPT !.queue = Tail(@),
                          !.state = Sensing(1, FALSE, Head(self.queue))],
             FALSE, None, FALSE, "Idle:pop", Some(Head(self.queue)))
    ELSE Arm([self EXCEPT !.state = Idle], TRUE, None, FALSE, "Idle:empty", None)

IdleArm(self) ==
    IF self.queue # <<>>
    THEN Arm([self EXCEPT !.queue = Tail(@),
                          !.state = Sensing(0, FALSE, Head(self.queue))],
             FALSE, None, FALSE, "Idle:pop", Some(Head(self.queue)))
    ELSE Arm([self EXCEPT !.state = Idle], TRUE, None, FALSE, "Idle:empty", None)

\* SensingRetry that drops the packet without counting it.
SensingRetryUncounted(self, rnd) ==
    LET pkt == self.state.current_packet
        retries == self.retries + 1
        wait_time == IF self.persistence THEN 0 ELSE wait_time_of(retries, rnd)
    IN  IF retries > MAX_RETRIES
        THEN Arm([self EXCEPT !.retries = retries, !.state = Idle],
                 FALSE, None, FALSE, "Sensing:drop", Some(pkt))
        ELSE Arm([self EXCEPT !.retries = retries,
                              !.state = Waiting(0, wait_time, pkt)],
                 FALSE, None, FALSE, "Sensing:backoff", Some(pkt))

\* SensingRetry without the persistence override of wait_time.
SensingRetryRandomWait(self, rnd) ==
    LET pkt == self.state.current_packet
        retries == self.retries + 1
        wait_time == wait_time_of(retries, rnd)
    IN  IF retries > MAX_RETRIES
        THEN Arm([self EXCEPT !.retries = retries,
                              !.state = Idle,
                              !.statistics.packets_dropped = @ + 1],
                 FALSE, None, FALSE, "Sensing:drop", Some(pkt))
        ELSE Arm([self EXCEPT !.retries = retries,
                              !.state = Waiting(0, wait_time, pkt)],
                 FALSE, None, FALSE, "Sensing:backoff", Some(pkt))

\* retries += 1, then drop the packet or back off (Sensing arm).
SensingRetry(self, rnd) ==
    LET pkt == self.state.current_packet
        retries == self.retries + 1
        wait_time == IF self.persistence THEN 0 ELSE wait_time_of(retries, rnd)
    IN  IF retries > MAX_RETRIES
        THEN Arm([self EXCEPT !.retries = retries,
                              !.state = Idle,
                              !.statistics.packets_dropped = @ + 1],
                 FALSE, None, FALSE, "Sensing:drop", Some(pkt))
        ELSE Arm([self EXCEPT !.retries = retries,
                              !.state = Waiting(0, wait_time, pkt)],
                 FALSE, None, FALSE, "Sensing:backoff", Some(pkt))

\* SensingArm that ends the IFS period one tick early.
SensingArmEarly(self, medium, rnd) ==
    LET st == self.state
    IN  IF st.counter < IFS - 1
        THEN Arm([self EXCEPT !.state =
                      Sensing(st.counter + 1,
                              is_busy(medium, self.id) \/ st.busy,
                              st.current_packet)],
                 TRUE, None, FALSE, "Sensing:sense", Some(st.current_packet))
        ELSE IF st.busy
             THEN SensingRetry(self, rnd)
             ELSE Arm([self EXCEPT !.state = Transmitting(0, st.current_packet)],
                      FALSE, None, FALSE, "Sensing:clear", Some(st.current_packet))

SensingArm(self, medium, rnd) ==
    LET st == self.state
    IN  IF st.counter < IFS
        THEN Arm([self EXCEPT !.state =
                      Sensing(st.counter + 1,
                              is_busy(medium, self.id) \/ st.busy,
                              st.current_packet)],
                 TRUE, None, FALSE, "Sensing:sense", Some(st.current_packet))
        ELSE IF st.busy
             THEN SensingRetry(self, rnd)
             ELSE Arm([self EXCEPT !.state = Transmitting(0, st.current_packet)],
                      FALSE, None, FALSE, "Sensing:clear", Some(st.current_packet))

\* TransmittingArm without the collision check.
TransmittingArmBlind(self, medium) ==
    LET st == self.state
        pkt == st.current_packet
        bits_processed == st.bits_processed + (self.pspeed \div self.resolution)
    IN  IF bits_processed >= pkt.length
        THEN Arm([self EXCEPT !.statistics.packets_processed = @ + 1,
                              !.state = Idle],
                 TRUE, Some(pkt), TRUE, "Transmitting:done", Some(pkt))
        ELSE Arm([self EXCEPT !.state = Transmitting(bits_processed, pkt)],
                 TRUE, None, TRUE, "Transmitting:bit", Some(pkt))

\* TransmittingArm that keeps the completed packet in the state.
TransmittingArmKeeps(self, medium) ==
    LET st == self.state
        pkt == st.current_packet
        bits_processed == st.bits_processed + (self.pspeed \div self.resolution)
    IN  IF ~is_busy(medium, self.id)
        THEN IF bits_processed >= pkt.length
             THEN Arm([self EXCEPT !.statistics.packets_processed = @ + 1,
                                   !.state = Transmitting(bits_processed, pkt)],
                      TRUE, Some(pkt), TRUE, "Transmitting:done", Some(pkt))
             ELSE Arm([self EXCEPT !.state = Transmitting(bits_processed, pkt)],
                      TRUE, None, TRUE, "Transmitting:bit", Some(pkt))
        ELSE Arm([self EXCEPT !.state = Jamming(JAM_TICKS, pkt)],
                 FALSE, None, FALSE, "Transmitting:collision", Some(pkt))

\* TransmittingArm that completes once bits_processed exceeds the length.
TransmittingArmLate(self, medium) ==
    LET st == self.state
        pkt == st.current_packet
        bits_processed == st.bits_processed + (self.pspeed \div self.resolution)
    IN  IF ~is_busy(medium, self.id)
        THEN IF bits_processed > pkt.length
             THEN Arm([self EXCEPT !.statistics.packets_processed = @ + 1,
                                   !.state = Idle],
                      TRUE, Some(pkt), TRUE, "Transmitting:done", Some(pkt))
             ELSE Arm([self EXCEPT !.state = Transmitting(bits_processed, pkt)],
                      TRUE, None, TRUE, "Transmitting:bit", Some(pkt))
        ELSE Arm([self EXCEPT !.state = Jamming(JAM_TICKS, pkt)],
                 FALSE, None, FALSE, "Transmitting:collision", Some(pkt))

\* TransmittingArm that enters Jamming with a counter of JAM_TICKS + 1.
TransmittingArmLongJam(self, medium) ==
    LET st == self.state
        pkt == st.current_packet
        bits_processed == st.bits_processed + (self.pspeed \div self.resolution)
    IN  IF ~is_busy(medium, self.id)
        THEN IF bits_processed >= pkt.length
             THEN Arm([self EXCEPT !.statistics.packets_processed = @ + 1,
                                   !.state = Idle],
                      TRUE, Some(pkt), TRUE, "Transmitting:done", Some(pkt))
             ELSE Arm([self EXCEPT !.state = Transmitting(bits_processed, pkt)],
                      TRUE, None, TRUE, "Transmitting:bit", Some(pkt))
        ELSE Arm([self EXCEPT !.state = Jamming(JAM_TICKS + 1, pkt)],
                 FALSE, None, FALSE, "Transmitting:collision", Some(pkt))

TransmittingArm(self, medium) ==
    LET st == self.state
        pkt == st.current_packet
        bits_processed == st.bits_processed + (self.pspeed \div self.resolution)
    IN  IF ~is_busy(medium, self.id)
        THEN IF bits_processed >= pkt.length
             THEN Arm([self EXCEPT !.statistics.packets_processed = @ + 1,
                                   !.state = Idle],
                      TRUE, Some(pkt), TRUE, "Transmitting:done", Some(pkt))
             ELSE Arm([self EXCEPT !.state = Transmitting(bits_processed, pkt)],
                      TRUE, None, TRUE, "Transmitting:bit", Some(pkt))
        ELSE Arm([self EXCEPT !.state = Jamming(JAM_TICKS, pkt)],
                 FALSE, None, FALSE, "Transmitting:collision", Some(pkt))

\* retries += 1, then drop the packet or back off (Jamming arm).
JammingRetry(self, rnd) ==
    LET pkt == self.state.current_packet
        retries == self.retries + 1
    IN  IF retries > MAX_RETRIES
        THEN Arm([self EXCEPT !.retries = retries,
                              !.state = Idle,
                              !.statistics.packets_dropped = @ + 1],
                 FALSE, None, FALSE, "Jamming:drop", Some(pkt))
        ELSE Arm([self EXCEPT !.retries = retries,
                              !.state = Waiting(0, wait_time_of(retries, rnd), pkt)],
                 FALSE, None, FALSE, "Jamming:backoff", Some(pkt))

JammingArm(self, rnd) ==
    LET st == self.state
        counter == st.counter - 1
    IN  IF counter = 0
        THEN JammingRetry(self, rnd)
        ELSE Arm([self EXCEPT !.state = Jamming(counter, st.current_packet)],
                 FALSE, None, FALSE, "Jamming:jam", Some(st.current_packet))

\* WaitingArm that does not count the ticks it waits.
WaitingArmStuck(self) ==
    LET st == self.state
    IN  IF st.counter < st.wait_time
        THEN Arm([self EXCEPT !.state =
                      Waiting(st.counter, st.wait_time, st.current_packet)],
                 TRUE, None, FALSE, "Waiting:wait", Some(st.current_packet))
        ELSE Arm([self EXCEPT !.state = Sensing(0, FALSE, st.current_packet)],
                 FALSE, None, FALSE, "Waiting:resume", Some(st.current_packet))

WaitingArm(self) ==
    LET st == self.state
    IN  IF st.counter < st.wait_time
        THEN Arm([self EXCEPT !.state =
                      Waiting(st.counter + 1, st.wait_time, st.current_packet)],
                 TRUE, None, FALSE, "Waiting:wait", Some(st.current_packet))
        ELSE Arm([self EXCEPT !.state = Sensing(0, FALSE, st.current_packet)],
                 FALSE, None, FALSE, "Waiting:resume", Some(st.current_packet))

\* match self.state { ... }
Match(self, medium, rnd) ==
    CASE self.state.tag = "Idle" -> IdleArm(self)
      [] self.state.tag = "Sensing" -> SensingArm(self, medium, rnd)
      [] self.state.tag = "Transmitting" -> TransmittingArm(self, medium)
      [] self.state.tag = "Jamming" -> JammingArm(self, rnd)
      [] self.state.tag = "Waiting" -> WaitingArm(self)

\* loop { match self.state { ... } }: arms is the list of the arms taken.
RECURSIVE Loop(_, _, _, _, _)
Loop(self, local_state, medium, rnd, arms) ==
    LET a == Match(self, medium, rnd)
        bits == IF a.set THEN [local_state EXCEPT ![self.id] = TRUE]
                ELSE local_state
        taken == Append(arms, [arm |-> a.arm, pkt |-> a.pkt])
    IN  IF a.brk
        THEN [self |-> a.self, local_state |-> bits, ret |-> a.ret,
              arms |-> taken]
        ELSE Loop(a.self, bits, medium, rnd, taken)

\* Server::tick against a medium that already carries the bits the servers
\* ticked before this one have set.
ServerTickShared(self, local_state, medium, current_time, rnd) ==
    LET c == ClientTick(self.client, current_time)
        ticked == [self EXCEPT !.client = c.client]
        arrived == IF c.packet # None
                   THEN enqueue([ticked EXCEPT
                                   !.statistics.packets_generated = @ + 1],
                                c.packet[1])
                   ELSE ticked
    IN  Loop(arrived, local_state, MediumWrite(medium, local_state), rnd, <<>>)

\* Server::tick
ServerTick(self, local_state, medium, current_time, rnd) ==
    LET c == ClientTick(self.client, current_time)
        ticked == [self EXCEPT !.client = c.client]
        arrived == IF c.packet # None
                   THEN enqueue([ticked EXCEPT
                                   !.statistics.packets_generated = @ + 1],
                                c.packet[1])
                   ELSE ticked
    IN  Loop(arrived, local_state, medium, rnd, <<>>)

(***************************************************************************)
(* The state of a run of main.                                             *)
(***************************************************************************)
VARIABLES
    servers,      \* servers[n]: the Server of id n
    medium,       \* the Medium
    local_state,  \* the bitmap of the last iteration, as written to the medium
    ticks,        \* the number of iterations of the loop
    i,            \* the tick counter of the loop
    pc,           \* "loop" while the loop runs, "report" after it, then "done"
    taken,        \* taken[n]: the arms server n took in its last tick
    returned,     \* returned[n]: what the last tick of server n returned
    written,      \* the bitmaps of the last DELAY + 1 iterations, oldest first
    history,      \* history[n]: failures of the packet in service and the
                  \* terminal events (processed, dropped) of server n so far
    report,       \* the totals printed after the loop
    unit          \* a Medium or a CircularBuffer exercised on its own, with
                  \* the calls made on it; None in a run of main

\* the variables of a run of main.
run_vars == <<servers, medium, local_state, ticks, i, pc, taken, returned,
             written, history, report>>

vars == <<servers, medium, local_state, ticks, i, pc, taken, returned, written,
         history, report, unit>>

\* the ids of the stations of the run.
Nodes == DOMAIN servers

\* for server in servers.iter_mut() { server.tick(&mut local_state, &medium, i) }
RECURSIVE TickServers(_, _, _, _, _, _, _, _)
TickServers(n, all, bits, m, current_time, rnd, arms, rets) ==
    IF n = Cardinality(DOMAIN all)
    THEN [servers |-> all, local_state |-> bits, taken |-> arms,
          returned |-> rets]
    ELSE LET r == ServerTick(all[n], bits, m, current_time, rnd[n + 1])
         IN  TickServers(n + 1, [all EXCEPT ![n] = r.self], r.local_state, m,
                         current_time, rnd,
                         [arms EXCEPT ![n] = r.arms],
                         [rets EXCEPT ![n] = r.ret])

\* The events of one arm, added to the history of a server.
Note(h, a) ==
    CASE a.arm = "Idle:pop" -> [h EXCEPT !.failures = 0]
      [] a.arm \in {"Sensing:backoff", "Jamming:backoff"} ->
             [h EXCEPT !.failures = @ + 1]
      [] a.arm \in {"Sensing:drop", "Jamming:drop"} ->
             [h EXCEPT !.failures = @ + 1,
                       !.fate = Append(@, [pkt |-> a.pkt[1],
                                           bucket |-> "dropped",
                                           failures |-> h.failures + 1])]
      [] a.arm = "Transmitting:done" ->
             [h EXCEPT !.fate = Append(@, [pkt |-> a.pkt[1],
                                           bucket |-> "processed",
                                           failures |-> h.failures])]
      [] OTHER -> h

RECURSIVE NoteAll(_, _)
NoteAll(h, arms) ==
    IF arms = <<>> THEN h ELSE NoteAll(Note(h, Head(arms)), Tail(arms))

\* The IFS periods of a server: entered is the tick its packet last entered
\* Sensing, seen whether a sense since then found the medium busy, and ifs
\* the last period that ended (from its first tick to the tick that decided).
Track(h, a, t, busy) ==
    CASE a.arm \in {"Idle:pop", "Waiting:resume"} ->
             [h EXCEPT !.entered = t, !.seen = FALSE]
      [] a.arm = "Sensing:sense" -> [h EXCEPT !.seen = @ \/ busy]
      [] a.arm \in {"Sensing:clear", "Sensing:backoff", "Sensing:drop"} ->
             [h EXCEPT !.ifs = Some([from |-> h.entered, to |-> t,
                                     clear |-> a.arm = "Sensing:clear",
                                     seen |-> h.seen])]
      [] OTHER -> h

\* the arms Track looks at.
Tracked(a) ==
    a.arm \in {"Idle:pop", "Waiting:resume", "Sensing:sense", "Sensing:clear",
               "Sensing:backoff", "Sensing:drop"}

RECURSIVE TrackAll(_, _, _, _)
TrackAll(h, arms, t, busy) ==
    IF arms = <<>> THEN h
    ELSE TrackAll(Track(h, Head(arms), t, busy), Tail(arms), t, busy)

\* The last DELAY + 1 entries of a list of bitmaps.
Window(bitmaps) ==
    IF Len(bitmaps) > DELAY + 1 THEN Tail(bitmaps) ELSE bitmaps

RECURSIVE Sum(_, _)
Sum(f, n) == IF n = 0 THEN 0 ELSE f[n - 1] + Sum(f, n - 1)

\* the arms Waits looks at.
Drawn(a) == a.arm \in {"Idle:pop", "Sensing:backoff", "Jamming:backoff"}

\* The waits a server drew for the packet in service: the wait of a backoff
\* is the wait_time of the Waiting state the tick ends in, 0 if it ends in
\* Sensing.
Waits(h, arms, self) ==
    IF \E k \in 1..Len(arms) : arms[k].arm = "Idle:pop"
    THEN [h EXCEPT !.waits = <<>>]
    ELSE IF \E k \in 1..Len(arms) :
                arms[k].arm \in {"Sensing:backoff", "Jamming:backoff"}
         THEN [h EXCEPT !.waits =
                   Append(@, IF self.state.tag = "Waiting"
                             THEN self.state.wait_time ELSE 0)]
         ELSE h

\* The state main is in before its loop, for the parameters of a run.
Start(run) ==
    /\ servers = [n \in Stations(run.ncount) |->
                    ServerNew(n, run.generator[n], run.packet_length,
                              RESOLUTION, PSPEED, run.persistence)]
    /\ ticks = run.ticks
    /\ medium = MediumNew(run.ncount, DELAY)
    /\ local_state = BitVecFromElem(run.ncount, FALSE)
    /\ i = 0
    /\ pc = "loop"
    /\ taken = [n \in Stations(run.ncount) |-> <<>>]
    /\ returned = [n \in Stations(run.ncount) |-> None]
    /\ written = <<>>
    /\ history = [n \in Stations(run.ncount) |->
                     [failures |-> 0, fate |-> <<>>, entered |-> 0,
                      seen |-> FALSE, ifs |-> None, waits |-> <<>>]]
    /\ report = None
    /\ unit = None

Init == \E run \in Runs : Start(run)

\* thread_rng() is consulted in the backoff branches alone: the raw values a
\* tick of server n may draw (one value, 0, when the tick draws nothing).
DrawsOf(n) ==
    LET r == ServerTick(servers[n], BitVecFromElem(medium.num_nodes, FALSE), medium, i, 0)
    IN  IF \E k \in 1..Len(r.arms) :
               r.arms[k].arm \in {"Sensing:backoff", "Jamming:backoff"}
        THEN 0..MaxRnd
        ELSE {0}

\* The draws of the servers 0..n-1 of one iteration: rnd[k + 1] is for server k.
RECURSIVE DrawsUpTo(_)
DrawsUpTo(n) ==
    IF n = 0 THEN {<<>>}
    ELSE {Append(rnd, v) : rnd \in DrawsUpTo(n - 1), v \in DrawsOf(n - 1)}

Draws == DrawsUpTo(medium.num_nodes)

\* One iteration of the loop of main: every server ticks against the medium
\* as it stands, then the bitmap is written and the medium advances.
MainLoop ==
    /\ pc = "loop"
    /\ i < ticks
    /\ \E rnd \in Draws :
          LET r == TickServers(0, servers, BitVecFromElem(medium.num_nodes, FALSE),
                               medium, i, rnd,
                               [n \in Nodes |-> <<>>], [n \in Nodes |-> None])
          IN  /\ servers' = r.servers
              /\ local_state' = r.local_state
              /\ medium' = MediumTick(MediumWrite(medium, r.local_state))
              /\ written' = Window(Append(written, r.local_state))
              /\ taken' = r.taken
              /\ returned' = r.returned
              /\ history' = [n \in Nodes |->
                                Waits(TrackAll(NoteAll(history[n], r.taken[n]),
                                               SelectSeq(r.taken[n], Tracked), i,
                                               is_busy(medium, n)),
                                      SelectSeq(r.taken[n], Drawn),
                                      r.servers[n])]
    /\ i' = i + 1
    /\ UNCHANGED <<ticks, pc, report, unit>>

\* The loop is over.
LoopExit ==
    /\ pc = "loop"
    /\ i = ticks
    /\ pc' = "report"
    /\ UNCHANGED <<servers, medium, local_state, ticks, i, taken, returned, written,
                   history, report, unit>>

\* The totals main prints.
Report ==
    /\ pc = "report"
    /\ report' = Some([packets_generated |->
                          Sum([n \in Nodes |-> servers[n].statistics.packets_generated], medium.num_nodes),
                       packets_processed |->
                          Sum([n \in Nodes |-> servers[n].statistics.packets_processed], medium.num_nodes),
                       packets_dropped |->
                          Sum([n \in Nodes |-> servers[n].statistics.packets_dropped], medium.num_nodes)])
    /\ pc' = "done"
    /\ UNCHANGED <<servers, medium, local_state, ticks, i, taken, returned, written,
                   history, unit>>

Next == MainLoop \/ LoopExit \/ Report

Spec == Init /\ [][Next]_vars

(***************************************************************************)
(* Runs of two stations that get their one packet in the same tick, and    *)
(* so start transmitting it in the same tick.                              *)
(***************************************************************************)
\* two stations with an arrival every d ticks.
Pair(d) == [n \in Stations(2) |-> d]

Collisions ==
    {Run(Pair(PairDelay), 40, FALSE, PairTicks),
     Run(Pair(PairDelay), 40, TRUE, PairTicks),
     Run(Pair(PairDelay), 2, FALSE, PairTicks)}

CollideInit == \E run \in Collisions : Start(run)

CollideSpec == CollideInit /\ [][Next]_vars

(***************************************************************************)
(* A Medium on its own: any bitmap may be written, any number of times,    *)
(* between two ticks.                                                      *)
(***************************************************************************)
\* no run of main: its variables are at rest.
NoRun ==
    /\ servers = <<>>
    /\ medium = None
    /\ local_state = <<>>
    /\ ticks = 0
    /\ i = 0
    /\ pc = "unit"
    /\ taken = <<>>
    /\ returned = <<>>
    /\ written = <<>>
    /\ history = <<>>
    /\ report = None

\* the last two of the calls made since the last tick, with one more.
Since(calls, call) ==
    IF Len(calls) = 2 THEN <<calls[2], call>> ELSE Append(calls, call)

\* the bitmaps of num_nodes bits.
Bitmaps(num_nodes) == [Stations(num_nodes) -> BOOLEAN]

MediumInit ==
    /\ NoRun
    /\ \E bsize \in 1..MediumSlots :
           unit = [medium |-> MediumNew(NumNodes, bsize), since |-> <<>>]

\* medium.write(state)
WriteMedium ==
    /\ pc = "unit"
    /\ \E state \in Bitmaps(unit.medium.num_nodes) :
           unit' = [medium |-> MediumWrite(unit.medium, state),
                    since |-> Since(unit.since, state)]
    /\ UNCHANGED run_vars

\* medium.tick()
TickMedium ==
    /\ pc = "unit"
    /\ unit' = [medium |-> MediumTick(unit.medium), since |-> <<>>]
    /\ UNCHANGED run_vars

MediumNext == WriteMedium \/ TickMedium

MediumSpec == MediumInit /\ [][MediumNext]_vars

(***************************************************************************)
(* A CircularBuffer<u32> on its own: values are written and the head is    *)
(* advanced in any order.  wrote is the last write: its value, the buffer  *)
(* before it and the advances made since.                                  *)
(***************************************************************************)
BufferInit ==
    /\ NoRun
    /\ \E size \in 1..BufferSlots :
           unit = [buffer |-> CBufferNew(size, 0), wrote |-> None]

\* c.write(t)
WriteBuffer ==
    /\ pc = "unit"
    /\ \E t \in {1, 2} :
           unit' = [buffer |-> CBufferWrite(unit.buffer, t),
                    wrote |-> Some([t |-> t, before |-> unit.buffer,
                                    advances |-> 0])]
    /\ UNCHANGED run_vars

\* c.tick(), up to twice round the buffer after a write.
TickBuffer ==
    /\ pc = "unit"
    /\ unit.wrote # None => unit.wrote[1].advances < 2 * CBufferLen(unit.buffer)
    /\ unit' = [buffer |-> CBufferTick(unit.buffer),
                wrote |-> IF unit.wrote = None THEN None
                          ELSE Some([unit.wrote[1] EXCEPT !.advances = @ + 1])]
    /\ UNCHANGED run_vars

BufferNext == WriteBuffer \/ TickBuffer

BufferSpec == BufferInit /\ [][BufferNext]_vars

(***************************************************************************)
(* Vocabulary of the properties.                                           *)
(***************************************************************************)
\* server n took the arm a in the last iteration.
Took(n, a) == \E k \in 1..Len(taken[n]) : taken[n][k].arm = a

\* server n went through the Transmitting arm in the last iteration.
WasTransmitting(n) ==
    \/ Took(n, "Transmitting:bit")
    \/ Took(n, "Transmitting:done")
    \/ Took(n, "Transmitting:collision")

\* server n went through the Jamming arm in the last iteration.
WasJamming(n) ==
    \/ Took(n, "Jamming:jam")
    \/ Took(n, "Jamming:backoff")
    \/ Took(n, "Jamming:drop")

\* server n entered Waiting in the last iteration.
BackedOff(n) == Took(n, "Sensing:backoff") \/ Took(n, "Jamming:backoff")

\* 1 if the state of server n holds a packet, else 0.
InFlight(n) ==
    IF servers[n].state.tag \in {"Sensing", "Transmitting", "Jamming", "Waiting"}
    THEN 1 ELSE 0

\* the head slot the last iteration read is known: DELAY iterations came before it.
HeadKnown == Len(written) = DELAY + 1

\* another station's bit is set in the bitmap written DELAY iterations before
\* the last one.
ForeignBitBefore(n) == \E m \in Nodes : m # n /\ written[1][m]

Fate(n) == history[n].fate

Terminal(n, bucket) == {k \in 1..Len(Fate(n)) : Fate(n)[k].bucket = bucket}

(***************************************************************************)
(* C1: packet conservation.  After any number of iterations, for every     *)
(* station, generated = processed + dropped + the length of its queue +    *)
(* (1 if its state is Sensing, Transmitting, Jamming or Waiting, else 0).  *)
(***************************************************************************)
C1_Conservation ==
    \A n \in Nodes :
        servers[n].statistics.packets_generated =
            servers[n].statistics.packets_processed
            + servers[n].statistics.packets_dropped
            + Len(servers[n].queue)
            + InFlight(n)

\* a station has dropped a packet, holds another and has more queued, while
\* a station has processed packets.
C1_Witness ==
    /\ \E n \in Nodes :
           /\ servers[n].statistics.packets_dropped > 0
           /\ Len(servers[n].queue) > 0
           /\ InFlight(n) = 1
    /\ \E n \in Nodes : servers[n].statistics.packets_processed > 0

(***************************************************************************)
(* C2: same-tick collision visibility.  As claimed: whenever two stations  *)
(* are both in Transmitting during the same iteration, the is_busy check   *)
(* of each of them in that iteration is true and both leave for Jamming    *)
(* in that iteration.                                                      *)
(***************************************************************************)
C2_SameTickCollision ==
    \A a, b \in Nodes :
        (a # b /\ WasTransmitting(a) /\ WasTransmitting(b))
            => (Took(a, "Transmitting:collision") /\ Took(b, "Transmitting:collision"))

(***************************************************************************)
(* C2 as amended: the is_busy check of a station in Transmitting in tick t *)
(* is true, and the station leaves Transmitting for Jamming in tick t,     *)
(* exactly when another station's bit is set in the bitmap written in tick *)
(* t - 26 (never for t < 26): two stations that both place bits in tick t  *)
(* see each other in tick t + 26, if still transmitting, not in tick t.    *)
(***************************************************************************)
C2_DelayedCollision ==
    \A n \in Nodes :
        WasTransmitting(n) =>
            (Took(n, "Transmitting:collision") <=> (HeadKnown /\ ForeignBitBefore(n)))

\* two stations detect their collision in the same iteration.
C2_Witness ==
    \E a, b \in Nodes :
        /\ a # b
        /\ Took(a, "Transmitting:collision")
        /\ Took(b, "Transmitting:collision")
        /\ HeadKnown /\ written[1][a] /\ written[1][b]

(***************************************************************************)
(* C3: bits count only on an exclusive channel.  As claimed: in every tick *)
(* in which a station in Transmitting adds to bits_processed and sets its  *)
(* bit, no other station places a bit in that tick, and no packet is       *)
(* counted processed in a tick in which another station places a bit.      *)
(***************************************************************************)
C3_ExclusiveBits ==
    \A a, b \in Nodes : (a # b /\ local_state[a]) => ~local_state[b]

(***************************************************************************)
(* C3 as amended: in every tick t in which a station in Transmitting adds  *)
(* to bits_processed and sets its bit, no other station's bit is set in    *)
(* the bitmap written in tick t - 26; other stations may place bits in     *)
(* tick t itself, and a packet is counted processed although its           *)
(* transmission overlapped another's by fewer than 26 ticks.               *)
(***************************************************************************)
C3_ExclusiveDelayed ==
    \A n \in Nodes : (local_state[n] /\ HeadKnown) => ~ForeignBitBefore(n)

\* two stations place a bit in the same tick, one of them completing its packet.
C3_Witness ==
    \E a, b \in Nodes :
        /\ a # b
        /\ HeadKnown
        /\ local_state[a] /\ local_state[b]
        /\ Took(a, "Transmitting:done")

(***************************************************************************)
(* C4: retries is reset to 0 when a new packet leaves the queue: every     *)
(* Idle -> Sensing transition leaves retries = 0.                          *)
(***************************************************************************)
C4_RetriesReset ==
    \A n \in Nodes : Took(n, "Idle:pop") => servers[n].retries = 0

(***************************************************************************)
(* C5: at the end of every tick, retries of every station is in [0, 10].   *)
(***************************************************************************)
C5_RetriesBounded ==
    \A n \in Nodes : servers[n].retries \in 0..MAX_RETRIES

(***************************************************************************)
(* C6: a packet is dropped exactly on its own 11th failed attempt: every   *)
(* dropped packet has 11 failures (busy IFS periods and collisions) of its *)
(* own.                                                                    *)
(***************************************************************************)
C6_DropOnEleventh ==
    \A n \in Nodes :
        \A k \in Terminal(n, "dropped") : Fate(n)[k].failures = MAX_RETRIES + 1

(***************************************************************************)
(* C7: each generated packet reaches at most one terminal bucket, at most  *)
(* once: no packet is counted twice in processed or dropped or in both, no *)
(* counted packet is still queued or in service, and the two counters      *)
(* count the terminal events alone, so retries change neither.             *)
(***************************************************************************)
C7_OneBucket ==
    \A n \in Nodes :
        /\ \A j, k \in 1..Len(Fate(n)) :
               Fate(n)[j].pkt = Fate(n)[k].pkt => j = k
        /\ \A k \in 1..Len(Fate(n)) :
               /\ \A q \in 1..Len(servers[n].queue) :
                      servers[n].queue[q] # Fate(n)[k].pkt
               /\ InFlight(n) = 1 =>
                      servers[n].state.current_packet # Fate(n)[k].pkt
        /\ servers[n].statistics.packets_processed =
               Cardinality(Terminal(n, "processed"))
        /\ servers[n].statistics.packets_dropped =
               Cardinality(Terminal(n, "dropped"))

\* a packet was dropped after several failed attempts of its own, none of
\* which was counted, while another packet was processed and counted once.
C7_Witness ==
    /\ \E n \in Nodes :
           /\ \E k \in Terminal(n, "dropped") : Fate(n)[k].failures > 1
           /\ servers[n].statistics.packets_dropped = 1
    /\ \E n \in Nodes :
           /\ Terminal(n, "processed") # {}
           /\ servers[n].statistics.packets_processed =
                  Cardinality(Terminal(n, "processed"))

(***************************************************************************)
(* C8: output bitmap contract.  After the step of station n in tick t, bit *)
(* n of local_state is set if and only if in tick t the station either     *)
(* transmitted a bit in Transmitting without detecting a collision or was  *)
(* in Jamming.                                                             *)
(***************************************************************************)
C8_BitmapContract ==
    \A n \in Nodes :
        local_state[n] <=>
            \/ Took(n, "Transmitting:bit")
            \/ Took(n, "Transmitting:done")
            \/ WasJamming(n)

(***************************************************************************)
(* C9: jamming occupies a fixed number of ticks.  A station that detects a *)
(* collision in tick t is in Jamming at the end of tick t, its retries not *)
(* yet incremented.                                                        *)
(***************************************************************************)
C9_JammingLasts ==
    \A n \in Nodes :
        Took(n, "Transmitting:collision") =>
            /\ servers[n].state.tag = "Jamming"
            /\ ~BackedOff(n)

(***************************************************************************)
(* C10: binary exponential backoff range.  Whenever a non-persistent       *)
(* station enters Waiting after retries was incremented to r, the possible *)
(* values of wait_time are exactly k * 512 for 0 <= k <= 2^r - 1.          *)
(***************************************************************************)
\* the values wait_time can take at a given retries, over the raw values of
\* the random source up to twice the width of the range.
WaitTimes(retries) ==
    {wait_time_of(retries, rnd) : rnd \in 0..(2 ^ (retries + 1))}

C10_BackoffRange ==
    \A n \in Nodes :
        (BackedOff(n) /\ ~servers[n].persistence /\ servers[n].retries \in 1..MAX_RETRIES)
            => WaitTimes(servers[n].retries)
                   = {k * SLOT : k \in 0..((2 ^ servers[n].retries) - 1)}

(***************************************************************************)
(* C11: 1-persistent override.  As claimed: with persistence = true,       *)
(* whenever an IFS period ends with busy true, the station is back in      *)
(* Sensing of the same packet at the end of that tick, the counter         *)
(* restarted, having spent no tick in Waiting.                             *)
(***************************************************************************)
\* an IFS period of server n ended with busy true in the last iteration.
EndedBusy(n) == Took(n, "Sensing:backoff") \/ Took(n, "Sensing:drop")

\* server n senses again, in the tick its IFS period ended busy: the arms
\* after the backoff are Waiting:resume and one Sensing:sense, of one packet.
Resensed(n) ==
    \E k \in 1..Len(taken[n]) :
        /\ taken[n][k].arm = "Sensing:backoff"
        /\ Len(taken[n]) = k + 2
        /\ taken[n][k + 1] = [arm |-> "Waiting:resume", pkt |-> taken[n][k].pkt]
        /\ taken[n][k + 2] = [arm |-> "Sensing:sense", pkt |-> taken[n][k].pkt]
        /\ servers[n].state.tag = "Sensing"
        /\ servers[n].state.counter = 1
        /\ servers[n].state.current_packet = taken[n][k].pkt[1]

C11_AlwaysResenses ==
    \A n \in Nodes :
        (servers[n].persistence /\ EndedBusy(n)) => Resensed(n)

(***************************************************************************)
(* C11 as amended: with persistence = true, whenever an IFS period ends    *)
(* with busy true and retries, incremented, is at most 10, the station is  *)
(* back in Sensing of the same packet in that same tick, the counter       *)
(* restarted, having spent no tick in Waiting; when retries, incremented,  *)
(* exceeds 10 the packet is dropped instead.                               *)
(***************************************************************************)
C11_ResensesOrDrops ==
    \A n \in Nodes :
        (servers[n].persistence /\ EndedBusy(n)) =>
            IF servers[n].retries <= MAX_RETRIES
            THEN Resensed(n)
            ELSE Took(n, "Sensing:drop") /\ ~Took(n, "Waiting:wait")

\* a persistent station whose random wait could be non-zero (retries >= 2)
\* senses again at once.
C11_Witness ==
    \E n \in Nodes :
        /\ servers[n].persistence
        /\ servers[n].retries \in 2..MAX_RETRIES
        /\ Took(n, "Sensing:backoff")
        /\ Resensed(n)

(***************************************************************************)
(* C12: IFS must fully elapse.  A packet that entered Sensing in tick t0   *)
(* is in Sensing, placing no bit, at the end of every tick t0 .. t0 + 95,  *)
(* its counter the number of ticks sensed and never above 96; every IFS    *)
(* period is decided in tick t0 + 96, and clear if and only if no sense of *)
(* the period found the medium busy; a period decided clear enters         *)
(* Transmitting in tick t0 + 96 and, the medium still clear, places the    *)
(* first bit in that tick.                                                 *)
(***************************************************************************)
\* the tick of the last iteration.
LastTick == i - 1

C12_IFSElapses ==
    \A n \in Nodes :
        LET h == history[n]
            st == servers[n].state
        IN  /\ st.tag = "Sensing" =>
                   /\ st.counter \in 1..IFS
                   /\ st.counter = LastTick - h.entered + 1
                   /\ st.busy = h.seen
                   /\ ~local_state[n]
            /\ (InFlight(n) = 1 /\ LastTick - h.entered < IFS) => st.tag = "Sensing"
            /\ h.ifs # None =>
                   /\ h.ifs[1].to = h.ifs[1].from + IFS
                   /\ h.ifs[1].clear <=> ~h.ifs[1].seen
            /\ Took(n, "Sensing:clear") =>
                   /\ h.ifs[1].to = LastTick
                   /\ WasTransmitting(n)
                   /\ ~(HeadKnown /\ ForeignBitBefore(n)) => local_state[n]

\* a station places the first bit of a packet in the tick that decided its
\* IFS period, 96 ticks after the packet entered Sensing.
C12_Witness ==
    \E n \in Nodes :
        /\ Took(n, "Sensing:clear")
        /\ history[n].ifs[1].from = LastTick - IFS
        /\ local_state[n]
        /\ servers[n].state.tag = "Transmitting"
        /\ servers[n].state.bits_processed = 1

(***************************************************************************)
(* C13: for every bitmap B and every id, after write(B) with no tick in    *)
(* between, is_busy(id) is true if and only if some bit j # id of B is     *)
(* set: the caller's own bit never makes the medium busy, and the last     *)
(* write to a slot replaces every earlier one.                             *)
(***************************************************************************)
C13_BusyAfterWrite ==
    unit.since # <<>> =>
        LET B == unit.since[Len(unit.since)]
        IN  \A id \in DOMAIN B :
                is_busy(unit.medium, id) <=> \E j \in DOMAIN B : j # id /\ B[j]

\* a bitmap with the bit of another station was written, then, with no tick
\* in between, one with the caller's bit alone: the caller finds no traffic.
C13_Witness ==
    /\ Len(unit.since) = 2
    /\ \E id \in DOMAIN unit.since[2] :
           /\ \E j \in DOMAIN unit.since[1] : j # id /\ unit.since[1][j]
           /\ unit.since[2] = [j \in DOMAIN unit.since[2] |-> j = id]
           /\ ~is_busy(unit.medium, id)

(***************************************************************************)
(* C14: circular buffer round trip.  For a buffer of capacity k, k         *)
(* advances return the head to the slot it started at, so write(v) and k   *)
(* advances read v again; after j advances, j no multiple of k, the head   *)
(* is at a different slot and read returns what that slot held before the  *)
(* write.                                                                  *)
(***************************************************************************)
C14_RoundTrip ==
    unit.wrote # None =>
        LET w == unit.wrote[1]
            c == unit.buffer
            k == CBufferLen(c)
        IN  IF w.advances % k = 0
            THEN c.idx = w.before.idx /\ CBufferRead(c) = w.t
            ELSE /\ c.idx # w.before.idx
                 /\ c.idx = (w.before.idx + w.advances) % k
                 /\ CBufferRead(c) = w.before.vec[c.idx]

\* a value no other slot holds is read again after k advances, k > 1.
C14_Witness ==
    /\ unit.wrote # None
    /\ CBufferLen(unit.buffer) > 1
    /\ unit.wrote[1].advances = CBufferLen(unit.buffer)
    /\ CBufferRead(unit.buffer) = unit.wrote[1].t
    /\ \A k \in DOMAIN unit.buffer.vec :
           k # unit.buffer.idx => unit.buffer.vec[k] # unit.wrote[1].t

(***************************************************************************)
(* C15: two colliding stations always recover.  As claimed: in a run of    *)
(* two stations that start transmitting a packet in the same tick, both    *)
(* packets complete in every behaviour; a dropped packet never completes,  *)
(* so no packet is ever dropped.                                           *)
(***************************************************************************)
C15_AlwaysRecover ==
    \A n \in Nodes : servers[n].statistics.packets_dropped = 0

(***************************************************************************)
(* C15 as amended: two colliding stations recover only if their waits      *)
(* separate them.  Packets of at most 26 bits both complete, the collision *)
(* never seen.  With longer packets the two stations stay in the same      *)
(* state, neither completing, for as long as they draw equal waits, and    *)
(* each packet is then either processed or, on its 11th failure, dropped:  *)
(* never both, and dropped when the waits drawn are equal at every retry.  *)
(***************************************************************************)
\* the two stations drew different waits at some retry.
Separated ==
    \E k \in 1..Len(history[0].waits) :
        k <= Len(history[1].waits) /\ history[0].waits[k] # history[1].waits[k]

C15_RecoverIfSeparated ==
    /\ ~Separated =>
           /\ servers[0].state = servers[1].state
           /\ servers[0].retries = servers[1].retries
           /\ servers[0].statistics = servers[1].statistics
           /\ servers[0].client.packet_length > DELAY =>
                  servers[0].statistics.packets_processed = 0
    /\ \A n \in Nodes :
           /\ Len(Fate(n)) <= 1
           /\ servers[n].client.packet_length <= DELAY =>
                  servers[n].retries = 0 /\ Terminal(n, "dropped") = {}
           /\ \A k \in Terminal(n, "dropped") :
                  Fate(n)[k].failures = MAX_RETRIES + 1

\* the waits drawn differed and both packets completed.
C15_Witness ==
    /\ Separated
    /\ \A n \in Nodes :
           /\ servers[n].client.packet_length > DELAY
           /\ servers[n].retries > 0
           /\ servers[n].statistics.packets_processed = 1
           /\ servers[n].statistics.packets_dropped = 0

(***************************************************************************)
(* C16: single station on a clear medium.  As claimed: at the end of the   *)
(* run of scenario 1 (one station, packets of one bit, 5 ticks) processed  *)
(* equals generated.                                                       *)
(***************************************************************************)
\* the run is that of scenario 1, and over.
Scenario1Done ==
    /\ pc = "done"
    /\ ticks = Scenario1.ticks
    /\ Nodes = Stations(Scenario1.ncount)
    /\ \A n \in Nodes :
           /\ servers[n].client.generator = Scenario1.generator[n]
           /\ servers[n].client.packet_length = Scenario1.packet_length

C16_ScenarioProcessed ==
    Scenario1Done => report[1].packets_processed = report[1].packets_generated

(***************************************************************************)
(* C16 as amended: in every run of a single station the station never      *)
(* observes a busy medium (no busy sense, no collision, no retry), so      *)
(* dropped = 0 in every reachable state; no packet is processed within the *)
(* first 96 ticks of a run, and at the end of the run of scenario 1        *)
(* processed = 0 while the packets generated are in Sensing or queued.     *)
(***************************************************************************)
C16_SingleStation ==
    Cardinality(Nodes) = 1 =>
        \A n \in Nodes :
            /\ servers[n].statistics.packets_dropped = 0
            /\ servers[n].retries = 0
            /\ servers[n].state.tag \in {"Idle", "Sensing", "Transmitting"}
            /\ servers[n].state.tag = "Sensing" => ~servers[n].state.busy
            /\ ~Took(n, "Transmitting:collision")
            /\ i <= IFS => servers[n].statistics.packets_processed = 0
            /\ Scenario1Done =>
                   /\ report[1].packets_dropped = 0
                   /\ report[1].packets_processed = 0
                   /\ report[1].packets_generated = InFlight(n) + Len(servers[n].queue)

\* the run of scenario 1 is over: packets were generated, none processed.
C16_Witness ==
    /\ Scenario1Done
    /\ report[1].packets_generated = 2
    /\ report[1].packets_processed = 0
    /\ \A n \in Nodes : servers[n].state.tag = "Sensing"

(***************************************************************************)
(* C17: one packet in flight, FIFO service.  Each station holds at most    *)
(* one packet in its state; a packet leaves the queue only in a step in    *)
(* which the station is Idle, at the start of the tick or right after the  *)
(* drop of the previous packet, and at most one does per tick; the packets *)
(* of a station leave the queue, and are processed or dropped, in the      *)
(* order they were generated.                                              *)
(***************************************************************************)
\* the packets of a sequence are in the order they were generated.
InOrder(packets) ==
    \A k \in 1..(Len(packets) - 1) :
        packets[k].time_generated < packets[k + 1].time_generated

\* the packets of server n that left its queue, oldest first: those with a
\* terminal event, then the one in service.
Served(n) ==
    [k \in 1..Len(Fate(n)) |-> Fate(n)[k].pkt]
        \o (IF InFlight(n) = 1 THEN <<servers[n].state.current_packet>> ELSE <<>>)

C17_OneInFlightFIFO ==
    \A n \in Nodes :
        /\ InFlight(n) = 1 <=> "current_packet" \in DOMAIN servers[n].state
        /\ \A j, k \in 1..Len(taken[n]) :
               (taken[n][j].arm = "Idle:pop" /\ taken[n][k].arm = "Idle:pop") => j = k
        /\ \A k \in 1..Len(taken[n]) :
               taken[n][k].arm = "Idle:pop" =>
                   \/ k = 1
                   \/ taken[n][k - 1].arm \in {"Sensing:drop", "Jamming:drop"}
        /\ InOrder(Served(n) \o servers[n].queue)

\* a station drops a packet and takes the next of several queued ones in the
\* same tick, after other packets of its own were dropped.
C17_Witness ==
    \E n \in Nodes :
        /\ Took(n, "Sensing:drop")
        /\ Took(n, "Idle:pop")
        /\ Len(Fate(n)) >= 2
        /\ Len(servers[n].queue) >= 2

(***************************************************************************)
(* C18: arrival ticker.  With a generator whose next_event always returns  *)
(* d, the k-th call of Client::tick after construction produces a packet   *)
(* exactly when d = 0 or k is a multiple of d; the packet carries the      *)
(* current_time of that call and the configured length, a call produces at *)
(* most one packet, and packets_generated counts the packets produced.     *)
(* The main loop makes call k with current_time = k - 1.                   *)
(***************************************************************************)
\* the calls, among the first `calls`, in which a ticker of delay d fires.
Firing(d, calls) == {k \in 1..calls : d = 0 \/ k % d = 0}

\* the packets server n has produced so far, wherever they are now.
Produced(n) == Served(n) \o servers[n].queue

C18_ArrivalTicker ==
    \A n \in Nodes :
        LET client == servers[n].client
            fired == Firing(client.generator, i)
        IN  /\ servers[n].statistics.packets_generated = Cardinality(fired)
            /\ Len(Produced(n)) = Cardinality(fired)
            /\ {Produced(n)[k] : k \in 1..Len(Produced(n))}
                   = {Packet(k - 1, client.packet_length) : k \in fired}

\* a ticker of delay 2 has fired three times and the last call, an odd one,
\* produced nothing.
C18_Witness ==
    \E n \in Nodes :
        /\ servers[n].client.generator = 2
        /\ servers[n].statistics.packets_generated = 3
        /\ i = 7
        /\ Produced(n)[3].time_generated = 5

(***************************************************************************)
(* C19: transmission completion.  At one bit per tick a station that finds *)
(* the medium clear in each transmitting tick sets its bit in each of them *)
(* and returns Some(pkt) exactly in the L-th one, L the length of pkt:     *)
(* in that tick packets_processed grows by one and the station ends Idle.  *)
(* Every other tick returns None.  The bits a station placed are read off  *)
(* the bitmaps written in the last DELAY + 1 iterations.                   *)
(***************************************************************************)
\* the number of iterations, counted back from the last one, in which
\* server n set its bit without a break.
RECURSIVE Trail(_, _)
Trail(n, bitmaps) ==
    IF bitmaps = <<>> \/ ~bitmaps[Len(bitmaps)][n] THEN 0
    ELSE 1 + Trail(n, SubSeq(bitmaps, 1, Len(bitmaps) - 1))

\* the packets of server n that were processed so far.
Processed(n) == SelectSeq(Fate(n), LAMBDA f : f.bucket = "processed")

C19_CompletesOnLthTick ==
    \A n \in Nodes :
        LET length == servers[n].client.packet_length
            sent == Trail(n, written)
        IN  /\ returned[n] # None <=> Took(n, "Transmitting:done")
            /\ Took(n, "Transmitting:done") =>
                   /\ returned[n] = Some(Fate(n)[Len(Fate(n))].pkt)
                   /\ Fate(n)[Len(Fate(n))].bucket = "processed"
                   /\ servers[n].state = Idle
                   /\ sent = IF length <= Len(written) THEN length ELSE Len(written)
            /\ Took(n, "Transmitting:bit") =>
                   /\ servers[n].state.tag = "Transmitting"
                   /\ sent >= 1
                   /\ sent < length
            /\ sent = length => Took(n, "Transmitting:done")
            /\ sent <= length
            /\ servers[n].statistics.packets_processed = Len(Processed(n))

\* a station completes its second packet of length 3 in the third tick in
\* which it set its bit.
C19_Witness ==
    \E n \in Nodes :
        /\ servers[n].client.packet_length = 3
        /\ Took(n, "Transmitting:done")
        /\ returned[n] # None
        /\ Trail(n, written) = 3
        /\ servers[n].statistics.packets_processed = 2

(***************************************************************************)
(* C20: step-order independence.  In one iteration every server ticks      *)
(* against the same Medium, which is written once after all of them ticked *)
(* and then advanced once; the tick of a server changes its own state and  *)
(* its own bit of local_state alone.  So, for the same draws, ticking the  *)
(* servers in any order ends the iteration with the same servers, bitmap   *)
(* and medium.                                                             *)
(***************************************************************************)
\* the orders in which the servers can be ticked.
Orders ==
    {order \in [1..Cardinality(Nodes) -> Nodes] :
        \A j, k \in 1..Cardinality(Nodes) : j # k => order[j] # order[k]}

\* for k in order { servers[k].tick(&mut local_state, &medium, i) }
RECURSIVE TickServersIn(_, _, _, _, _, _)
TickServersIn(order, all, bits, m, current_time, rnd) ==
    IF order = <<>>
    THEN [servers |-> all, local_state |-> bits]
    ELSE LET n == Head(order)
             r == ServerTick(all[n], bits, m, current_time, rnd[n + 1])
         IN  TickServersIn(Tail(order), [all EXCEPT ![n] = r.self], r.local_state,
                           m, current_time, rnd)

\* the medium after each of the bitmaps was written to m and m advanced.
RECURSIVE Replay(_, _)
Replay(m, bitmaps) ==
    IF bitmaps = <<>> THEN m
    ELSE Replay(MediumTick(MediumWrite(m, Head(bitmaps))), Tail(bitmaps))

\* an iteration of the loop is about to run.
InLoop == pc = "loop" /\ i < ticks

C20_OrderIndependent ==
    /\ pc \in {"loop", "report", "done"} =>
           /\ medium = Replay([MediumNew(medium.num_nodes, DELAY) EXCEPT
                                  !.tracks.idx = (i - Len(written)) % DELAY],
                              written)
           /\ i > 0 => local_state = written[Len(written)]
    /\ InLoop =>
           \A rnd \in Draws :
               LET fresh == BitVecFromElem(medium.num_nodes, FALSE)
                   r == TickServers(0, servers, fresh, medium, i, rnd,
                                    [n \in Nodes |-> <<>>], [n \in Nodes |-> None])
               IN  /\ \A order \in Orders :
                          LET q == TickServersIn(order, servers, fresh, medium, i, rnd)
                          IN  /\ q.servers = r.servers
                              /\ q.local_state = r.local_state
                   /\ \A n \in Nodes :
                          LET alone == ServerTick(servers[n], fresh, medium, i, rnd[n + 1])
                          IN  /\ r.servers[n] = alone.self
                              /\ r.local_state[n] = alone.local_state[n]
                              /\ \A bits \in Bitmaps(medium.num_nodes) :
                                     LET s == ServerTick(servers[n], bits, medium, i,
                                                         rnd[n + 1])
                                     IN  /\ s.self = alone.self
                                         /\ s.ret = alone.ret
                                         /\ \A k \in Nodes \ {n} :
                                                s.local_state[k] = bits[k]
                                         /\ s.local_state[n] =
                                                (bits[n] \/ alone.local_state[n])

\* two servers are about to tick: the first will set its bit, the second
\* ends an IFS in which it saw the medium busy and has a wait to draw.
C20_Witness ==
    /\ InLoop
    /\ \E n, k \in Nodes :
           /\ n < k
           /\ servers[n].state.tag = "Transmitting"
           /\ ~is_busy(medium, n)
           /\ servers[k].state.tag = "Sensing"
           /\ servers[k].state.counter = IFS
           /\ servers[k].state.busy
           /\ Cardinality(Draws) > 1

(***************************************************************************)
(* C21: shape of the medium.  In every state of a run the medium holds     *)
(* exactly DELAY slots with the head index among them, every slot and the  *)
(* bitmap the loop writes have exactly num_nodes bits, and every server's  *)
(* id is below num_nodes: the assertions of Medium::write and of is_busy   *)
(* hold at every call the loop makes.                                      *)
(***************************************************************************)
\* assert!(state.len() == self.tracks.read().len())
WriteAsserts(m, state) == DOMAIN state = DOMAIN CBufferRead(m.tracks)

\* assert!(id < self.num_nodes)
BusyAsserts(m, id) == id \in Stations(m.num_nodes)

C21_MediumShape ==
    pc \in {"loop", "report", "done"} =>
        /\ DOMAIN medium.tracks.vec = 0..(DELAY - 1)
        /\ medium.tracks.idx \in DOMAIN medium.tracks.vec
        /\ medium.num_nodes = Cardinality(Nodes)
        /\ \A k \in DOMAIN medium.tracks.vec :
               /\ DOMAIN medium.tracks.vec[k] = Stations(medium.num_nodes)
               /\ \A n \in Stations(medium.num_nodes) :
                      medium.tracks.vec[k][n] \in BOOLEAN
        /\ WriteAsserts(medium, local_state)
        /\ WriteAsserts(medium, BitVecFromElem(medium.num_nodes, FALSE))
        /\ \A n \in Nodes : servers[n].id = n /\ BusyAsserts(medium, servers[n].id)

\* the head has wrapped around the ring more than once and the slots hold
\* bits of more than one station.
C21_Witness ==
    /\ pc = "loop"
    /\ i > 2 * DELAY
    /\ Cardinality(Nodes) >= 2
    /\ \A n \in Nodes : \E k \in DOMAIN medium.tracks.vec : medium.tracks.vec[k][n]

(***************************************************************************)
(* C22: propagation delay of the ring.  With all servers ticked, then the  *)
(* bitmap written, then the medium advanced, the bitmap is_busy reads in   *)
(* iteration t is exactly the one written in iteration t - DELAY, and the  *)
(* all-zero bitmap for t < DELAY: bits set in iteration t are seen by no   *)
(* server before iteration t + DELAY.  In a state with counter i the next  *)
(* iteration is i and the last bitmap of `written` is that of i - 1.       *)
(***************************************************************************)
\* the bitmap written DELAY iterations before iteration i.
WrittenBefore ==
    IF i < DELAY THEN BitVecFromElem(medium.num_nodes, FALSE)
    ELSE written[Len(written) - DELAY + 1]

C22_ReadsDelayedBitmap ==
    pc \in {"loop", "report", "done"} =>
        /\ Len(written) = (IF i < DELAY + 1 THEN i ELSE DELAY + 1)
        /\ CBufferRead(medium.tracks) = WrittenBefore
        /\ \A n \in Nodes :
               is_busy(medium, n) <=> \E k \in Nodes \ {n} : WrittenBefore[k]

\* a server reads a bit set DELAY iterations ago, while the bitmaps written
\* in the last two iterations are all-zero.
C22_Witness ==
    /\ pc = "loop"
    /\ i > DELAY
    /\ \E n \in Nodes : is_busy(medium, n)
    /\ \A n \in Nodes : ~written[Len(written)][n] /\ ~written[Len(written) - 1][n]

(***************************************************************************)
(* C23: eventual resolution.  While the loop keeps iterating, a packet     *)
(* that left the queue is processed or dropped after finitely many         *)
(* iterations, and so every queued packet leaves the queue.  Stated as a   *)
(* ranking argument on every iteration of the loop: for a server holding a *)
(* packet, the iteration ends the packet (processed or dropped), or counts *)
(* one more failure without exceeding MAX_RETRIES, or leaves retries alone *)
(* and lowers the number of ticks the attempt can still take; a server     *)
(* that is Idle with a queued packet takes the head of the queue; and the  *)
(* packets queued ahead of any queued packet never grow in number.         *)
(***************************************************************************)
\* the number of ticks the attempt of a server can take before it completes
\* the packet, at one bit per tick, if no failure ends it earlier.
TicksLeft(self) ==
    LET st == self.state
    IN  CASE st.tag = "Waiting" ->
                 (st.wait_time - st.counter) + IFS + 1 + st.current_packet.length
          [] st.tag = "Sensing" -> (IFS - st.counter) + st.current_packet.length
          [] st.tag = "Transmitting" -> st.current_packet.length - st.bits_processed
          [] OTHER -> 0

\* the iteration resolves the packet server n holds, or brings it closer to
\* its resolution.
Progress(n) ==
    \/ Len(Fate(n)') = Len(Fate(n)) + 1
    \/ /\ Len(Fate(n)') = Len(Fate(n))
       /\ servers'[n].retries = servers[n].retries + 1
       /\ servers'[n].retries <= MAX_RETRIES
       /\ servers'[n].state.tag \in {"Sensing", "Waiting"}
       /\ servers'[n].state.current_packet = servers[n].state.current_packet
    \/ /\ Len(Fate(n)') = Len(Fate(n))
       /\ servers'[n].retries = servers[n].retries
       /\ servers'[n].state.tag \in {"Sensing", "Transmitting", "Waiting"}
       /\ servers'[n].state.current_packet = servers[n].state.current_packet
       /\ TicksLeft(servers'[n]) >= 0
       /\ TicksLeft(servers'[n]) < TicksLeft(servers[n])

\* the packets of server n that have not left its queue by the end of the
\* iteration are its old queue less the head taken, then the new arrival.
QueueAdvances(n) ==
    LET old == servers[n].queue
        new == servers'[n].queue
        kept == IF new # <<>> /\ new[Len(new)].time_generated = i
                THEN SubSeq(new, 1, Len(new) - 1) ELSE new
    IN  \/ kept = old
        \/ old # <<>> /\ kept = Tail(old)
        \/ old = <<>> /\ kept = <<>>

C23_EventuallyResolved ==
    [][(pc = "loop" /\ i' = i + 1) =>
          \A n \in Nodes :
              /\ InFlight(n) = 1 => Progress(n)
              /\ (InFlight(n) = 0 /\ servers[n].queue # <<>>) =>
                     /\ servers'[n].state.tag \in {"Sensing", "Transmitting", "Waiting"}
                     /\ servers'[n].state.current_packet = Head(servers[n].queue)
              /\ (InFlight(n) = 1 /\ Len(Fate(n)') = Len(Fate(n)) + 1
                      /\ Fate(n)'[Len(Fate(n)')].bucket = "dropped"
                      /\ servers[n].queue # <<>>) =>
                     /\ servers'[n].state.tag = "Sensing"
                     /\ servers'[n].state.current_packet = Head(servers[n].queue)
              /\ QueueAdvances(n)]_vars

\* a packet was processed after at least one failure, and the packet queued
\* behind it is in service.
C23_Witness ==
    \E n \in Nodes :
        /\ Fate(n) # <<>>
        /\ Fate(n)[Len(Fate(n))].bucket = "processed"
        /\ Fate(n)[Len(Fate(n))].failures >= 1
        /\ InFlight(n) = 1

(***************************************************************************)
(* C24: minimum sojourn.  At one bit per tick a packet of length L that    *)
(* tick returns in iteration t has time_generated + IFS + (L - 1) <= t:    *)
(* the difference t - time_generated main computes on u32 is never         *)
(* negative, and no packet completes sooner than IFS + L - 1 ticks after   *)
(* it was generated.                                                       *)
(***************************************************************************)
\* i - p.time_generated, for the packet the last tick of server n returned.
Sojourn(n) == LastTick - returned[n][1].time_generated

C24_MinimumSojourn ==
    \A n \in Nodes :
        returned[n] # None =>
            /\ Sojourn(n) >= 0
            /\ Sojourn(n) >= IFS + (returned[n][1].length - 1)

\* a packet of length 3 completes exactly IFS + 2 ticks after its generation,
\* after an earlier packet of the same server was processed.
C24_Witness ==
    \E n \in Nodes :
        /\ returned[n] # None
        /\ returned[n][1].length = 3
        /\ Sojourn(n) = IFS + 2
        /\ servers[n].statistics.packets_processed >= 2

(***************************************************************************)
(* C25: tick terminates.  Every call of Server::tick made in a run goes    *)
(* through a bounded number of arms of its loop and returns.  Jamming is   *)
(* entered from a collision alone, with counter JAM_TICKS, and is left in  *)
(* the same call after JAM_TICKS arms, so its decrement never goes below   *)
(* 0; the counter of Sensing never exceeds IFS, so counter == 96 holds     *)
(* where the code asserts it.                                              *)
(***************************************************************************)
JammingArms == {"Jamming:jam", "Jamming:backoff", "Jamming:drop"}

\* the positions of the Jamming arms among the arms of the last tick of n.
Jammed(n) == {k \in 1..Len(taken[n]) : taken[n][k].arm \in JammingArms}

\* the longest tick: the IFS ends clear, the first bit collides, the jam
\* runs, the packet backs off or is dropped, and sensing starts again.
LongestTick == JAM_TICKS + 4

C25_TickTerminates ==
    \A n \in Nodes :
        /\ Len(taken[n]) <= LongestTick
        /\ i > 0 => /\ taken[n] # <<>>
                    /\ taken[n][Len(taken[n])].arm \in
                           {"Idle:empty", "Sensing:sense", "Transmitting:bit",
                            "Transmitting:done", "Waiting:wait"}
        /\ servers[n].state.tag # "Jamming"
        /\ Took(n, "Transmitting:collision") <=> Jammed(n) # {}
        /\ Jammed(n) # {} =>
               \E first \in 2..Len(taken[n]) :
                   /\ taken[n][first - 1].arm = "Transmitting:collision"
                   /\ Jammed(n) = first..(first + JAM_TICKS - 1)
                   /\ \A k \in first..(first + JAM_TICKS - 2) :
                          taken[n][k].arm = "Jamming:jam"
                   /\ taken[n][first + JAM_TICKS - 1].arm # "Jamming:jam"
        /\ servers[n].state.tag = "Sensing" =>
               servers[n].state.counter \in 1..IFS
        /\ servers[n].state.tag = "Waiting" =>
               servers[n].state.counter \in 0..servers[n].state.wait_time
        /\ servers[n].state.tag = "Transmitting" =>
               servers[n].state.bits_processed
                   \in 1..(servers[n].state.current_packet.length - 1)

\* a tick in which a collision, the whole jam, a backoff with no wait and
\* the first sense of the next IFS all happened.
C25_Witness ==
    \E n \in Nodes :
        /\ Took(n, "Transmitting:collision")
        /\ Took(n, "Jamming:backoff")
        /\ Took(n, "Waiting:resume")
        /\ Took(n, "Sensing:sense")
        /\ Len(taken[n]) >= JAM_TICKS + 3

====
